---- MODULE Spec2Model ----
(***************************************************************************)
(* Model of the bioreactor sensor pipeline core:                           *)
(*   core/validation/validation_layer.py  ValidationLayer, SensorAggregator *)
(*                                                                         *)
(* Python values are records [ty, cs, n, nan]:                             *)
(*   ty   the Python type ("absent" marks a key missing from the dict),    *)
(*   cs   the characters of a str (one-character strings),                 *)
(*   n    the number of an int or float, in tenths (7.2 is 72),            *)
(*   nan  TRUE for the float NaN.                                          *)
(***************************************************************************)
EXTENDS Integers, Sequences, FiniteSets, TLC

(***************************************************************************)
(* Python values                                                           *)
(***************************************************************************)
Absent == [ty |-> "absent", cs |-> <<>>, n |-> 0, nan |-> FALSE]

None == [ty |-> "NoneType", cs |-> <<>>, n |-> 0, nan |-> FALSE]

PyStr(chars) == [ty |-> "str", cs |-> chars, n |-> 0, nan |-> FALSE]

PyInt(tenths) == [ty |-> "int", cs |-> <<>>, n |-> tenths, nan |-> FALSE]

PyFloat(tenths) == [ty |-> "float", cs |-> <<>>, n |-> tenths, nan |-> FALSE]

NaN == [ty |-> "float", cs |-> <<>>, n |-> 0, nan |-> TRUE]

\* a non-empty list: truthy, not hashable
List == [ty |-> "list", cs |-> <<"x">>, n |-> 0, nan |-> FALSE]

\* dict.get(key): None when the key is missing
Get(reading, key) == IF reading[key].ty = "absent" THEN None ELSE reading[key]

\* Python truth value (`not v` is ~Truthy(v))
Truthy(v) ==
    CASE v.ty \in {"absent", "NoneType"} -> FALSE
      [] v.ty \in {"str", "list"} -> Len(v.cs) > 0
      [] v.ty \in {"int", "float"} -> v.nan \/ v.n # 0

\* isinstance(v, (int, float))
IsNumber(v) == v.ty \in {"int", "float"}

\* v < 0 for a number; every comparison with NaN is False
LtZero(v) == ~v.nan /\ v.n < 0

\* float(v) for an int or a float
ToFloat(v) == [ty |-> "float", cs |-> <<>>, n |-> v.n, nan |-> v.nan]

\* a + b on floats
FAdd(a, b) == [ty |-> "float", cs |-> <<>>,
               n |-> IF a.nan \/ b.nan THEN 0 ELSE a.n + b.n,
               nan |-> a.nan \/ b.nan]

\* hash(v) succeeds
Hashable(v) == v.ty # "list"

(***************************************************************************)
(* ValidationLayer.validate_reading                                        *)
(***************************************************************************)
validate_reading(reading) ==
    LET sensor_id == Get(reading, "sensor_id")
        ph_value == Get(reading, "ph_value")
        temperature == Get(reading, "temperature")
        timestamp == Get(reading, "timestamp")
    IN  IF ~Truthy(sensor_id) \/ ~Truthy(timestamp)
           \/ ph_value = None \/ temperature = None
        THEN FALSE
        ELSE IF ~IsNumber(ph_value) \/ ~IsNumber(temperature)
        THEN FALSE
        ELSE IF LtZero(ph_value) \/ LtZero(temperature)
        THEN FALSE
        ELSE TRUE

(***************************************************************************)
(* datetime.strptime(timestamp, "%Y-%m-%d %H:%M")                          *)
(* The format compiles to the regular expression                           *)
(*   (\d\d\d\d)-(1[0-2]|0[1-9]|[1-9])-(3[01]|[12]\d|0[1-9]|[1-9]| [1-9])   *)
(*   \s+(2[0-3]|[0-1]\d|\d):([0-5]\d|\d)                                   *)
(* which must match the whole string, and the fields must name a date.     *)
(***************************************************************************)
Digits == {"0", "1", "2", "3", "4", "5", "6", "7", "8", "9"}

Whitespace == {" ", "\t"}

DigitVal(c) ==
    CASE c = "0" -> 0 [] c = "1" -> 1 [] c = "2" -> 2 [] c = "3" -> 3
      [] c = "4" -> 4 [] c = "5" -> 5 [] c = "6" -> 6 [] c = "7" -> 7
      [] c = "8" -> 8 [] c = "9" -> 9

\* the character at position i, "" past the end
At(s, i) == IF i >= 1 /\ i <= Len(s) THEN s[i] ELSE ""

NoMatch == [ok |-> FALSE, val |-> 0, next |-> 0]

Two(a, b, i) == [ok |-> TRUE, val |-> 10 * DigitVal(a) + DigitVal(b), next |-> i + 2]

One(a, i) == [ok |-> TRUE, val |-> DigitVal(a), next |-> i + 1]

\* %Y at position i: \d\d\d\d
MatchYear(s, i) ==
    IF \A k \in 0..3 : At(s, i + k) \in Digits
    THEN [ok |-> TRUE,
          val |-> 1000 * DigitVal(s[i]) + 100 * DigitVal(s[i + 1])
                  + 10 * DigitVal(s[i + 2]) + DigitVal(s[i + 3]),
          next |-> i + 4]
    ELSE NoMatch

\* %m at position i: 1[0-2]|0[1-9]|[1-9]
MatchMonth(s, i) ==
    LET a == At(s, i)
        b == At(s, i + 1)
    IN  IF (a = "1" /\ b \in {"0", "1", "2"}) \/ (a = "0" /\ b \in Digits \ {"0"})
        THEN Two(a, b, i)
        ELSE IF a \in Digits \ {"0"} THEN One(a, i) ELSE NoMatch

\* %d at position i: 3[0-1]|[1-2]\d|0[1-9]|[1-9]| [1-9]
MatchDay(s, i) ==
    LET a == At(s, i)
        b == At(s, i + 1)
    IN  IF (a = "3" /\ b \in {"0", "1"}) \/ (a \in {"1", "2"} /\ b \in Digits)
           \/ (a = "0" /\ b \in Digits \ {"0"})
        THEN Two(a, b, i)
        ELSE IF a \in Digits \ {"0"} THEN One(a, i)
        ELSE IF a = " " /\ b \in Digits \ {"0"} THEN One(b, i + 1)
        ELSE NoMatch

\* %H at position i: 2[0-3]|[0-1]\d|\d
MatchHour(s, i) ==
    LET a == At(s, i)
        b == At(s, i + 1)
    IN  IF (a = "2" /\ b \in {"0", "1", "2", "3"}) \/ (a \in {"0", "1"} /\ b \in Digits)
        THEN Two(a, b, i)
        ELSE IF a \in Digits THEN One(a, i) ELSE NoMatch

\* %M at position i: [0-5]\d|\d
MatchMinute(s, i) ==
    LET a == At(s, i)
        b == At(s, i + 1)
    IN  IF a \in {"0", "1", "2", "3", "4", "5"} /\ b \in Digits
        THEN Two(a, b, i)
        ELSE IF a \in Digits THEN One(a, i) ELSE NoMatch

\* \s+ at position i: the position after the run of whitespace, 0 if there is none
RECURSIVE SkipSpace(_, _)
SkipSpace(s, i) ==
    IF At(s, i) \in Whitespace
    THEN (IF At(s, i + 1) \in Whitespace THEN SkipSpace(s, i + 1) ELSE i + 1)
    ELSE 0

IsLeap(y) == (y % 4 = 0 /\ y % 100 # 0) \/ y % 400 = 0

DaysInMonth(y, m) ==
    IF m = 2 THEN (IF IsLeap(y) THEN 29 ELSE 28)
    ELSE IF m \in {4, 6, 9, 11} THEN 30 ELSE 31

NoDatetime == <<>>

ParseError == [exc |-> "ValueError", obj |-> NoDatetime]

\* the fields matched: they must name a date of the calendar, year 1 or later
MakeDatetime(Y, m, d, H, M) ==
    IF Y >= 1 /\ d <= DaysInMonth(Y, m)
    THEN [exc |-> "none", obj |-> <<Y, m, d, H, M>>]
    ELSE ParseError

\* the minute, and nothing after it
ParseMinute(s, Y, m, d, H, M) ==
    IF M.ok /\ M.next = Len(s) + 1 THEN MakeDatetime(Y, m, d, H, M.val) ELSE ParseError

\* the hour, then ":"
ParseHour(s, Y, m, d, H) ==
    IF H.ok /\ At(s, H.next) = ":"
    THEN ParseMinute(s, Y, m, d, H.val, MatchMinute(s, H.next + 1))
    ELSE ParseError

\* the whitespace between date and time
ParseSpace(s, Y, m, d, sp) ==
    IF sp > 0 THEN ParseHour(s, Y, m, d, MatchHour(s, sp)) ELSE ParseError

\* the day
ParseDay(s, Y, m, d) ==
    IF d.ok THEN ParseSpace(s, Y, m, d.val, SkipSpace(s, d.next)) ELSE ParseError

\* the month, then "-"
ParseMonth(s, Y, m) ==
    IF m.ok /\ At(s, m.next) = "-"
    THEN ParseDay(s, Y, m.val, MatchDay(s, m.next + 1))
    ELSE ParseError

\* the year, then "-"
ParseYear(s, Y) ==
    IF Y.ok /\ At(s, Y.next) = "-"
    THEN ParseMonth(s, Y.val, MatchMonth(s, Y.next + 1))
    ELSE ParseError

\* [exc, obj]: the datetime <<year, month, day, hour, minute>>, or the exception
strptime(timestamp) ==
    IF timestamp.ty # "str" THEN [exc |-> "TypeError", obj |-> NoDatetime]
    ELSE ParseYear(timestamp.cs, MatchYear(timestamp.cs, 1))

\* a > b on datetimes
RECURSIVE TupleGt(_, _, _)
TupleGt(a, b, i) ==
    IF i > Len(a) THEN FALSE
    ELSE IF a[i] # b[i] THEN a[i] > b[i]
    ELSE TupleGt(a, b, i + 1)

DatetimeGt(a, b) == TupleGt(a, b, 1)

(***************************************************************************)
(* SensorAggregator                                                        *)
(* sensor_data is a defaultdict: a function from the keys present to the   *)
(* per-sensor entries.                                                     *)
(***************************************************************************)
\* temperature thresholds of the anomaly test, in tenths
HighTemperature == 400

LowTemperature == 200

\* a > c and a < c for a float a and a number constant c (False for NaN)
FGt(a, c) == ~a.nan /\ a.n > c

FLt(a, c) == ~a.nan /\ a.n < c

\* the default_factory of sensor_data
DefaultEntry ==
    [ph_sum |-> PyFloat(0),
     ph_count |-> 0,
     anomaly_count |-> 0,
     latest_timestamp_str |-> None,
     latest_timestamp_obj |-> NoDatetime]

\* SensorAggregator.__init__: an empty defaultdict
EmptySensorData == [k \in {} |-> DefaultEntry]

\* defaultdict.__getitem__ on a missing key inserts the default entry
Touch(data, key) ==
    IF key \in DOMAIN data THEN data
    ELSE [k \in DOMAIN data \cup {key} |-> IF k = key THEN DefaultEntry ELSE data[k]]

\* as IsAnomaly, with the bounds 40.0 and 20.0 counted
IsAnomaly_inclusive(temperature) ==
    ~FLt(temperature, HighTemperature) \/ ~FGt(temperature, LowTemperature)

\* the temperature test of the anomaly counter
IsAnomaly(temperature) ==
    FGt(temperature, HighTemperature) \/ FLt(temperature, LowTemperature)

\* as IsLater, with every timestamp replacing the stored one
IsLater_always(timestamp_obj, latest_timestamp_obj) == TRUE

\* as IsLater, with an equal timestamp replacing the stored one
IsLater_orEqual(timestamp_obj, latest_timestamp_obj) ==
    latest_timestamp_obj = NoDatetime \/ ~DatetimeGt(latest_timestamp_obj, timestamp_obj)

\* the test that replaces the stored latest timestamp
IsLater(timestamp_obj, latest_timestamp_obj) ==
    latest_timestamp_obj = NoDatetime \/ DatetimeGt(timestamp_obj, latest_timestamp_obj)

\* as FoldReading, with ph_sum assigned instead of added to
FoldReading_overwrite(data, sensor_id, ph_value, temperature, timestamp, timestamp_obj) ==
    LET d0 == Touch(data, sensor_id)
        e0 == d0[sensor_id]
        e1 == [e0 EXCEPT !.ph_sum = ph_value, !.ph_count = @ + 1]
        e2 == IF IsAnomaly(temperature)
              THEN [e1 EXCEPT !.anomaly_count = @ + 1]
              ELSE e1
        e3 == IF IsLater(timestamp_obj, e2.latest_timestamp_obj)
              THEN [e2 EXCEPT !.latest_timestamp_obj = timestamp_obj,
                              !.latest_timestamp_str = timestamp]
              ELSE e2
    IN  [d0 EXCEPT ![sensor_id] = e3]

\* as FoldReading, with one entry shared by all the sensors
FoldReading_shared(data, sensor_id, ph_value, temperature, timestamp, timestamp_obj) ==
    LET d0 == Touch(data, sensor_id)
        e0 == d0[sensor_id]
        e1 == [e0 EXCEPT !.ph_sum = FAdd(@, ph_value), !.ph_count = @ + 1]
        e2 == IF IsAnomaly(temperature)
              THEN [e1 EXCEPT !.anomaly_count = @ + 1]
              ELSE e1
        e3 == IF IsLater(timestamp_obj, e2.latest_timestamp_obj)
              THEN [e2 EXCEPT !.latest_timestamp_obj = timestamp_obj,
                              !.latest_timestamp_str = timestamp]
              ELSE e2
    IN  [k \in DOMAIN d0 |-> e3]

\* the updates of one reading whose timestamp parsed
FoldReading(data, sensor_id, ph_value, temperature, timestamp, timestamp_obj) ==
    LET d0 == Touch(data, sensor_id)
        e0 == d0[sensor_id]
        e1 == [e0 EXCEPT !.ph_sum = FAdd(@, ph_value), !.ph_count = @ + 1]
        e2 == IF IsAnomaly(temperature)
              THEN [e1 EXCEPT !.anomaly_count = @ + 1]
              ELSE e1
        e3 == IF IsLater(timestamp_obj, e2.latest_timestamp_obj)
              THEN [e2 EXCEPT !.latest_timestamp_obj = timestamp_obj,
                              !.latest_timestamp_str = timestamp]
              ELSE e2
    IN  [d0 EXCEPT ![sensor_id] = e3]

\* as AfterParse, with the running totals updated before the ValueError of the
\* timestamp skips the reading
AfterParse_totalsFirst(data, sensor_id, ph_value, temperature, timestamp, parsed) ==
    IF parsed.exc \notin {"none", "ValueError"}
    THEN [data |-> data, exc |-> parsed.exc, folded |-> FALSE]
    ELSE IF ~Hashable(sensor_id)
    THEN [data |-> data, exc |-> "TypeError", folded |-> FALSE]
    ELSE IF parsed.exc = "ValueError"
    THEN [data |-> [Touch(data, sensor_id) EXCEPT
                       ![sensor_id].ph_sum = FAdd(@, ph_value),
                       ![sensor_id].ph_count = @ + 1],
          exc |-> "none", folded |-> FALSE]
    ELSE [data |-> FoldReading(data, sensor_id, ph_value, temperature,
                               timestamp, parsed.obj),
          exc |-> "none", folded |-> TRUE]

\* as AfterParse, with the entry of the sensor looked up before the
\* ValueError of the timestamp skips the reading
AfterParse_touchFirst(data, sensor_id, ph_value, temperature, timestamp, parsed) ==
    IF parsed.exc \notin {"none", "ValueError"}
    THEN [data |-> data, exc |-> parsed.exc, folded |-> FALSE]
    ELSE IF ~Hashable(sensor_id)
    THEN [data |-> data, exc |-> "TypeError", folded |-> FALSE]
    ELSE IF parsed.exc = "ValueError"
    THEN [data |-> Touch(data, sensor_id), exc |-> "none", folded |-> FALSE]
    ELSE [data |-> FoldReading(data, sensor_id, ph_value, temperature,
                               timestamp, parsed.obj),
          exc |-> "none", folded |-> TRUE]

\* the loop body after the timestamp was parsed: a ValueError skips the
\* reading, any other exception leaves the loop, and the first use of
\* sensor_data[sensor_id] hashes the key
AfterParse(data, sensor_id, ph_value, temperature, timestamp, parsed) ==
    IF parsed.exc = "ValueError"
    THEN [data |-> data, exc |-> "none", folded |-> FALSE]
    ELSE IF parsed.exc # "none"
    THEN [data |-> data, exc |-> parsed.exc, folded |-> FALSE]
    ELSE IF ~Hashable(sensor_id)
    THEN [data |-> data, exc |-> "TypeError", folded |-> FALSE]
    ELSE [data |-> FoldReading(data, sensor_id, ph_value, temperature,
                               timestamp, parsed.obj),
          exc |-> "none", folded |-> TRUE]

\* one iteration of the loop of process_chunk:
\* [data, exc, folded], exc the exception that leaves the loop, folded whether
\* the reading reached the running totals
ProcessReading(data, reading) ==
    IF ~validate_reading(reading)
    THEN [data |-> data, exc |-> "none", folded |-> FALSE]
    ELSE AfterParse(data, reading["sensor_id"], ToFloat(reading["ph_value"]),
                    ToFloat(reading["temperature"]), reading["timestamp"],
                    strptime(reading["timestamp"]))

\* process_chunk from record i of the chunk on:
\* [data, exc, folded], folded the readings folded, in fold order
RECURSIVE ProcessFrom(_, _, _, _)
Continue(r, chunk, i, done) ==
    IF r.exc # "none"
    THEN [data |-> r.data, exc |-> r.exc, folded |-> done]
    ELSE ProcessFrom(r.data, chunk, i + 1,
                     IF r.folded THEN Append(done, chunk[i]) ELSE done)

ProcessFrom(data, chunk, i, done) ==
    IF i > Len(chunk) THEN [data |-> data, exc |-> "none", folded |-> done]
    ELSE Continue(ProcessReading(data, chunk[i]), chunk, i, done)

process_chunk(data, chunk) == ProcessFrom(data, chunk, 1, <<>>)

\* greatest common divisor, Gcd(0, b) = b
RECURSIVE Gcd(_, _)
Gcd(a, b) == IF b = 0 THEN a ELSE Gcd(b, a % b)

\* a / c for a float a and a count c > 0: the quotient as a reduced fraction of
\* tenths
FDiv(a, c) ==
    IF a.nan THEN [num |-> 0, den |-> 1, nan |-> TRUE]
    ELSE LET g == Gcd(IF a.n < 0 THEN -a.n ELSE a.n, c)
         IN  [num |-> a.n \div g, den |-> c \div g, nan |-> FALSE]

\* the float 0.0
FZero == [num |-> 0, den |-> 1, nan |-> FALSE]

\* get_results: sensor_id -> <<avg_ph, anomaly_count, latest_timestamp>>
get_results(data) ==
    [sensor_id \in DOMAIN data |->
        LET d == data[sensor_id]
            avg_ph == IF d.ph_count > 0 THEN FDiv(d.ph_sum, d.ph_count) ELSE FZero
        IN  <<avg_ph, d.anomaly_count, d.latest_timestamp_str>>]

\* as reset, with every entry set back to the default instead of removed
reset_entries(data) == [k \in DOMAIN data |-> DefaultEntry]

\* reset: sensor_data.clear()
reset(data) == [k \in {} |-> DefaultEntry]

(***************************************************************************)
(* Source readers                                                          *)
(* ingest() is a generator: a frame holds where it is suspended, and a     *)
(* next() call runs it to its next yield, to its end (StopIteration) or to *)
(* an exception: [gen, out, exc], out the chunk yielded when exc = "none". *)
(***************************************************************************)
\* a line of text: one that strip() leaves empty, one that json.loads
\* rejects, or a JSON document with its decoded value
BlankLine == [text |-> "blank", value |-> None]

BadLine == [text |-> "bad", value |-> None]

JsonLine(v) == [text |-> "json", value |-> v]

\* not line.strip()
IsBlank(line) == line.text = "blank"

\* json.loads(line)
json_loads(line) ==
    IF line.text = "json" THEN [exc |-> "none", value |-> line.value]
    ELSE [exc |-> "JSONDecodeError", value |-> None]

\* the generator ran to its end, or an exception left it
Finished(gen, e) == [gen |-> [gen EXCEPT !.pc = "done"], out |-> <<>>, exc |-> e]

\* the generator is suspended at a yield
Yield(gen, chunk) == [gen |-> gen, out |-> chunk, exc |-> "none"]

\* FileIngestionLayer.ingest(source) before its first next()
FileGen == [pc |-> "start", pos |-> 1, chunk |-> <<>>]

\* as FileAppend, with a chunk yielded only once it is longer than chunk_size
RECURSIVE FileLoop(_, _, _)
FileAppend_late(lines, size, gen) ==
    IF Len(gen.chunk) > size
    THEN Yield([gen EXCEPT !.pc = "loop", !.pos = @ + 1, !.chunk = <<>>], gen.chunk)
    ELSE FileLoop(lines, size, [gen EXCEPT !.pos = @ + 1])

\* after chunk.append(reading): a full chunk is yielded and a new one begun
FileAppend(lines, size, gen) ==
    IF Len(gen.chunk) >= size
    THEN Yield([gen EXCEPT !.pc = "loop", !.pos = @ + 1, !.chunk = <<>>], gen.chunk)
    ELSE FileLoop(lines, size, [gen EXCEPT !.pos = @ + 1])

\* as FileLoop, with the read ending at the first line that does not decode
FileLoop_stopAtBad(lines, size, gen) ==
    IF gen.pos > Len(lines) \/ (~IsBlank(lines[gen.pos]) /\ json_loads(lines[gen.pos]).exc # "none")
    THEN IF gen.chunk # <<>>
         THEN Yield([gen EXCEPT !.pc = "tail"], gen.chunk)
         ELSE Finished(gen, "StopIteration")
    ELSE IF IsBlank(lines[gen.pos])
    THEN FileLoop(lines, size, [gen EXCEPT !.pos = @ + 1])
    ELSE FileAppend(lines, size,
                    [gen EXCEPT !.chunk = Append(@, json_loads(lines[gen.pos]).value)])

\* the loop over the lines of the file from line gen.pos on, and the last
\* chunk after it
FileLoop(lines, size, gen) ==
    IF gen.pos > Len(lines)
    THEN IF gen.chunk # <<>>
         THEN Yield([gen EXCEPT !.pc = "tail"], gen.chunk)
         ELSE Finished(gen, "StopIteration")
    ELSE IF IsBlank(lines[gen.pos])
    THEN FileLoop(lines, size, [gen EXCEPT !.pos = @ + 1])
    ELSE IF json_loads(lines[gen.pos]).exc # "none"
    THEN FileLoop(lines, size, [gen EXCEPT !.pos = @ + 1])
    ELSE FileAppend(lines, size,
                    [gen EXCEPT !.chunk = Append(@, json_loads(lines[gen.pos]).value)])

\* next() on the generator of FileIngestionLayer.ingest; open() raises when
\* no file has the name
FileNext(file, size, gen) ==
    IF gen.pc = "start" /\ ~file.exists THEN Finished(gen, "FileNotFoundError")
    ELSE IF gen.pc \in {"start", "loop"} THEN FileLoop(file.lines, size, gen)
    ELSE Finished(gen, "StopIteration")

\* APIIngestionLayer.ingest(source) before its first next(); requests is the
\* list of the pages requests.get was called for
ApiGen ==
    [pc |-> "start", page |-> 1, item |-> 0, data |-> <<>>, chunk |-> <<>>,
     requests |-> <<>>]

\* the response to the request of a page: past the last page the body is empty
Response(pages, page) ==
    IF page \in DOMAIN pages THEN pages[page] ELSE [status |-> "ok", data |-> <<>>]

\* the loop over the items of the page, from item gen.item on
RECURSIVE ApiPage(_, _, _)
RECURSIVE ApiItems(_, _, _)
ApiAppend(pages, size, gen) ==
    IF Len(gen.chunk) >= size
    THEN Yield([gen EXCEPT !.pc = "loop", !.item = @ + 1, !.chunk = <<>>], gen.chunk)
    ELSE ApiItems(pages, size, [gen EXCEPT !.item = @ + 1])

ApiItems(pages, size, gen) ==
    IF gen.item > Len(gen.data)
    THEN ApiPage(pages, size, [gen EXCEPT !.page = @ + 1])
    ELSE ApiAppend(pages, size, [gen EXCEPT !.chunk = Append(@, gen.data[gen.item])])

\* the response to the request of page gen.page has arrived
ApiResponse(pages, size, gen, response) ==
    IF response.status # "ok" THEN Finished(gen, response.status)
    ELSE IF response.data = <<>>
    THEN IF gen.chunk # <<>>
         THEN Yield([gen EXCEPT !.pc = "tail"], gen.chunk)
         ELSE Finished(gen, "StopIteration")
    ELSE ApiItems(pages, size, [gen EXCEPT !.item = 1, !.data = response.data])

\* as ApiPage, with the chunk begun on the page before dropped
ApiPage_perPage(pages, size, gen) ==
    ApiResponse(pages, size,
                [gen EXCEPT !.requests = Append(@, gen.page),
                            !.chunk = IF Response(pages, gen.page).data = <<>>
                                      THEN @ ELSE <<>>],
                Response(pages, gen.page))

\* one round of the while loop: the request of page gen.page
ApiPage(pages, size, gen) ==
    ApiResponse(pages, size, [gen EXCEPT !.requests = Append(@, gen.page)],
                Response(pages, gen.page))

\* next() on the generator of APIIngestionLayer.ingest
ApiNext(pages, size, gen) ==
    IF gen.pc = "start" THEN ApiPage(pages, size, gen)
    ELSE IF gen.pc = "loop" THEN ApiItems(pages, size, gen)
    ELSE Finished(gen, "StopIteration")

\* S3IngestionLayer.ingest() before its first next(); pos is i of the range
S3Gen == [pc |-> "start", pos |-> 0]

\* the lines of a slice that json.loads decodes, decoded
RECURSIVE Decoded(_)
Decoded(lines) ==
    IF lines = <<>> THEN <<>>
    ELSE IF json_loads(Head(lines)).exc = "none"
    THEN <<json_loads(Head(lines)).value>> \o Decoded(Tail(lines))
    ELSE Decoded(Tail(lines))

\* data[i : i + chunk_size]
Slice(data, i, size) ==
    SubSeq(data, i + 1, IF i + size < Len(data) THEN i + size ELSE Len(data))

\* the loop over range(0, len(data), chunk_size) from i = gen.pos on
RECURSIVE S3Loop(_, _, _)
S3Chunk(data, size, gen, chunk) ==
    IF chunk # <<>>
    THEN Yield([gen EXCEPT !.pc = "loop", !.pos = @ + size], chunk)
    ELSE S3Loop(data, size, [gen EXCEPT !.pos = @ + size])

S3Loop(data, size, gen) ==
    IF gen.pos >= Len(data) THEN Finished(gen, "StopIteration")
    ELSE S3Chunk(data, size, gen, Decoded(Slice(data, gen.pos, size)))

\* as S3Next, with the ClientError of get_object ending the sequence
S3Next_silent(object, size, gen) ==
    IF gen.pc = "start" /\ ~object.exists THEN Finished(gen, "StopIteration")
    ELSE IF gen.pc \in {"start", "loop"} THEN S3Loop(object.lines, size, gen)
    ELSE Finished(gen, "StopIteration")

\* next() on the generator of S3IngestionLayer.ingest; the ClientError of
\* get_object is raised as a ValueError
S3Next(object, size, gen) ==
    IF gen.pc = "start" /\ ~object.exists THEN Finished(gen, "ValueError")
    ELSE IF gen.pc \in {"start", "loop"} THEN S3Loop(object.lines, size, gen)
    ELSE Finished(gen, "StopIteration")

(***************************************************************************)
(* IngestionLayerFactory                                                   *)
(***************************************************************************)
UpperCase == <<"A", "B", "C", "D", "E", "F", "G", "H", "I", "J", "K", "L", "M",
               "N", "O", "P", "Q", "R", "S", "T", "U", "V", "W", "X", "Y", "Z">>

LowerCase == <<"a", "b", "c", "d", "e", "f", "g", "h", "i", "j", "k", "l", "m",
               "n", "o", "p", "q", "r", "s", "t", "u", "v", "w", "x", "y", "z">>

Range(s) == {s[i] : i \in 1..Len(s)}

IsAlpha(c) == c \in Range(UpperCase) \cup Range(LowerCase)

\* urllib.parse.scheme_chars
SchemeChars == Range(UpperCase) \cup Range(LowerCase) \cup Digits \cup {"+", "-", "."}

\* str.lower()
Lower(s) ==
    [i \in 1..Len(s) |->
        IF s[i] \in Range(UpperCase)
        THEN LowerCase[CHOOSE k \in 1..Len(UpperCase) : UpperCase[k] = s[i]]
        ELSE s[i]]

\* str.lstrip of spaces
RECURSIVE LStrip(_)
LStrip(s) == IF s # <<>> /\ Head(s) = " " THEN LStrip(Tail(s)) ELSE s

\* str.find(":"), counted from 1; 0 when there is none
Find(s, c) ==
    IF \E i \in 1..Len(s) : s[i] = c
    THEN CHOOSE i \in 1..Len(s) : s[i] = c /\ \A j \in 1..(i - 1) : s[j] # c
    ELSE 0

\* the scheme urlsplit finds in the stripped url: what stands before the first
\* colon, in lower case, when it begins with a letter and holds scheme
\* characters only
SchemeOf(url) ==
    IF /\ Find(url, ":") > 1
       /\ IsAlpha(url[1])
       /\ \A i \in 1..(Find(url, ":") - 1) : url[i] \in SchemeChars
    THEN Lower(SubSeq(url, 1, Find(url, ":") - 1))
    ELSE <<>>

\* urlparse(source).scheme
Scheme(source) == SchemeOf(LStrip(source))

\* str.endswith(suffix)
EndsWith(s, suffix) ==
    /\ Len(s) >= Len(suffix)
    /\ SubSeq(s, Len(s) - Len(suffix) + 1, Len(s)) = suffix

\* 'http', 'https'
HttpSchemes == {<<"h", "t", "t", "p">>, <<"h", "t", "t", "p", "s">>}

\* '.json', '.jsonl', '.txt', '.csv'
FileExtensions ==
    {<<".", "j", "s", "o", "n">>, <<".", "j", "s", "o", "n", "l">>,
     <<".", "t", "x", "t">>, <<".", "c", "s", "v">>}

\* as create_ingestion_layer, with the file test made before the scheme test
create_ingestion_layer_fileFirst(src, isfile) ==
    IF isfile \/ \E ext \in FileExtensions : EndsWith(src.cs, ext)
    THEN [exc |-> "none", cls |-> "FileIngestionLayer"]
    ELSE IF Scheme(src.cs) \in HttpSchemes
    THEN [exc |-> "none", cls |-> "APIIngestionLayer"]
    ELSE [exc |-> "ValueError", cls |-> "none"]

\* create_ingestion_layer(source, chunk_size); isfile is os.path.isfile(source)
create_ingestion_layer(src, isfile) ==
    IF Scheme(src.cs) \in HttpSchemes
    THEN [exc |-> "none", cls |-> "APIIngestionLayer"]
    ELSE IF isfile \/ \E ext \in FileExtensions : EndsWith(src.cs, ext)
    THEN [exc |-> "none", cls |-> "FileIngestionLayer"]
    ELSE [exc |-> "ValueError", cls |-> "none"]

\* ingestion_layer.ingest(source) before its first next()
NewGen(cls) == IF cls = "APIIngestionLayer" THEN ApiGen ELSE FileGen

\* next() on the generator of the reader the factory made
ReaderNext(cls, env, size, gen) ==
    IF cls = "APIIngestionLayer" THEN ApiNext(env.pages, size, gen)
    ELSE FileNext(env, size, gen)

(***************************************************************************)
(* ValidationLayer.filter_chunk and the legacy process_data                *)
(***************************************************************************)
filter_chunk(chunk) == SelectSeq(chunk, validate_reading)

\* the default_factory of the sensor_data of process_data
LegacyEntry == [DefaultEntry EXCEPT !.ph_sum = PyInt(0)]

LegacyTouch(data, key) ==
    IF key \in DOMAIN data THEN data
    ELSE [k \in DOMAIN data \cup {key} |-> IF k = key THEN LegacyEntry ELSE data[k]]

\* the running totals and the anomaly count of process_data
LegacyTotals(data, sensor_id, ph_value, temperature) ==
    [LegacyTouch(data, sensor_id) EXCEPT
        ![sensor_id].ph_sum = FAdd(@, ToFloat(ph_value)),
        ![sensor_id].ph_count = @ + 1,
        ![sensor_id].anomaly_count = IF IsAnomaly(temperature) THEN @ + 1 ELSE @]

\* process_data after the timestamp was parsed: the totals are already
\* updated when a ValueError skips the reading
LegacyLatest(data, sensor_id, timestamp, parsed) ==
    IF parsed.exc = "ValueError" THEN [data |-> data, exc |-> "none"]
    ELSE IF parsed.exc # "none" THEN [data |-> data, exc |-> parsed.exc]
    ELSE IF IsLater(parsed.obj, data[sensor_id].latest_timestamp_obj)
    THEN [data |-> [data EXCEPT ![sensor_id].latest_timestamp_obj = parsed.obj,
                                ![sensor_id].latest_timestamp_str = timestamp],
          exc |-> "none"]
    ELSE [data |-> data, exc |-> "none"]

\* the filter of process_data: a value that is not truthy is rejected, 0 and
\* 0.0 included
LegacyValid(sensor_id, timestamp, ph_value, temperature) ==
    /\ Truthy(sensor_id) /\ Truthy(timestamp) /\ Truthy(ph_value) /\ Truthy(temperature)
    /\ IsNumber(ph_value) /\ IsNumber(temperature)
    /\ ~LtZero(ph_value) /\ ~LtZero(temperature)

\* one iteration of the loop of process_data
LegacyReading(data, r) ==
    IF ~LegacyValid(Get(r, "sensor_id"), Get(r, "timestamp"),
                    Get(r, "ph_value"), Get(r, "temperature"))
    THEN [data |-> data, exc |-> "none"]
    ELSE IF ~Hashable(r["sensor_id"])
    THEN [data |-> data, exc |-> "TypeError"]
    ELSE LegacyLatest(LegacyTotals(data, r["sensor_id"], r["ph_value"], r["temperature"]),
                      r["sensor_id"], r["timestamp"], strptime(r["timestamp"]))

RECURSIVE LegacyFrom(_, _, _)
LegacyContinue(r, readings, i) ==
    IF r.exc # "none" THEN r ELSE LegacyFrom(r.data, readings, i + 1)

LegacyFrom(data, readings, i) ==
    IF i > Len(readings) THEN [data |-> data, exc |-> "none"]
    ELSE LegacyContinue(LegacyReading(data, readings[i]), readings, i)

\* the mapping process_data builds from its sensor_data
LegacyResults(r) ==
    [exc |-> r.exc,
     ret |-> IF r.exc = "none" THEN get_results(r.data) ELSE EmptySensorData]

\* process_data(readings): [exc, ret]
process_data(readings) == LegacyResults(LegacyFrom(EmptySensorData, readings, 1))

(***************************************************************************)
(* process_pipeline and process_pipeline_streaming                         *)
(* An outcome records what the caller sees (pc, exc, ret) and, as history, *)
(* the reader made (cls), its generator (gen), the chunks taken from it    *)
(* (fed) and who raised (by).                                              *)
(***************************************************************************)
\* no generator
NoGen == [pc |-> "none"]

\* the chunks, one after the other
RECURSIVE Flatten(_)
Flatten(seqs) == IF seqs = <<>> THEN <<>> ELSE Head(seqs) \o Flatten(Tail(seqs))

Outcome(pc, e, by, value, cls, gen, fed) ==
    [pc |-> pc, exc |-> e, by |-> by, ret |-> value, cls |-> cls, gen |-> gen,
     fed |-> fed]

\* the loop of process_pipeline over the chunks of the reader, and the
\* return of get_results()
RECURSIVE Drain(_, _, _, _, _, _)
\* as DrainChunk, with the failure of the reader caught and the results so
\* far returned
DrainChunk_catching(cls, env, size, r, data, fed) ==
    IF r.exc # "none"
    THEN Outcome("returned", "none", "none", get_results(data), cls, r.gen, fed)
    ELSE IF process_chunk(data, r.out).exc # "none"
    THEN Outcome("raised", process_chunk(data, r.out).exc, "aggregator",
                 EmptySensorData, cls, r.gen, Append(fed, r.out))
    ELSE Drain(cls, env, size, r.gen, process_chunk(data, r.out).data,
               Append(fed, r.out))

\* as DrainChunk, with the next batch requested before the batch is folded
RECURSIVE DrainChunk_ahead(_, _, _, _, _, _)
DrainChunk_ahead(cls, env, size, r, data, fed) ==
    IF r.exc = "StopIteration"
    THEN Outcome("returned", "none", "none", get_results(data), cls, r.gen, fed)
    ELSE IF r.exc # "none"
    THEN Outcome("raised", r.exc, "reader", EmptySensorData, cls, r.gen, fed)
    ELSE IF process_chunk(data, r.out).exc # "none"
    THEN Outcome("raised", process_chunk(data, r.out).exc, "aggregator",
                 EmptySensorData, cls, ReaderNext(cls, env, size, r.gen).gen,
                 Append(fed, r.out))
    ELSE DrainChunk_ahead(cls, env, size, ReaderNext(cls, env, size, r.gen),
                          process_chunk(data, r.out).data, Append(fed, r.out))

\* one round of the loop: next() on the reader has returned r
DrainChunk(cls, env, size, r, data, fed) ==
    IF r.exc = "StopIteration"
    THEN Outcome("returned", "none", "none", get_results(data), cls, r.gen, fed)
    ELSE IF r.exc # "none"
    THEN Outcome("raised", r.exc, "reader", EmptySensorData, cls, r.gen, fed)
    ELSE IF process_chunk(data, r.out).exc # "none"
    THEN Outcome("raised", process_chunk(data, r.out).exc, "aggregator",
                 EmptySensorData, cls, r.gen, Append(fed, r.out))
    ELSE Drain(cls, env, size, r.gen, process_chunk(data, r.out).data,
               Append(fed, r.out))

Drain(cls, env, size, gen, data, fed) ==
    DrainChunk(cls, env, size, ReaderNext(cls, env, size, gen), data, fed)

\* process_pipeline, once the factory has returned layer
DrainLayer(layer, env, size) ==
    IF layer.exc # "none"
    THEN Outcome("raised", layer.exc, "factory", EmptySensorData, "none", NoGen, <<>>)
    ELSE Drain(layer.cls, env, size, NewGen(layer.cls), EmptySensorData, <<>>)

\* process_pipeline(source, chunk_size)
process_pipeline(src, size, env) ==
    DrainLayer(create_ingestion_layer(src, env.exists), env, size)

\* calling process_pipeline_streaming runs none of its body: the generator
\* is created, and its first next() calls the factory
StreamingCreated ==
    Outcome("created", "none", "none", EmptySensorData, "none", NoGen, <<>>)

\* the loop of process_pipeline_streaming until its next yield
RECURSIVE Stream(_, _, _, _, _)
StreamValid(cls, env, size, gen, fed, d) ==
    IF d.exc # "none"
    THEN Outcome("done", d.exc, "process_data", EmptySensorData, cls, gen, fed)
    ELSE Outcome("suspended", "none", "none", d.ret, cls, gen, fed)

\* as StreamChunk, with a mapping yielded for a chunk without a valid reading
StreamChunk_everyChunk(cls, env, size, r, fed) ==
    IF r.exc = "StopIteration"
    THEN Outcome("done", "StopIteration", "none", EmptySensorData, cls, r.gen, fed)
    ELSE IF r.exc # "none"
    THEN Outcome("done", r.exc, "reader", EmptySensorData, cls, r.gen, fed)
    ELSE StreamValid(cls, env, size, r.gen, Append(fed, r.out),
                     process_data(filter_chunk(r.out)))

\* as StreamChunk, with the mapping computed from all the chunks taken so far
StreamChunk_cumulative(cls, env, size, r, fed) ==
    IF r.exc = "StopIteration"
    THEN Outcome("done", "StopIteration", "none", EmptySensorData, cls, r.gen, fed)
    ELSE IF r.exc # "none"
    THEN Outcome("done", r.exc, "reader", EmptySensorData, cls, r.gen, fed)
    ELSE IF filter_chunk(r.out) = <<>>
    THEN Stream(cls, env, size, r.gen, Append(fed, r.out))
    ELSE StreamValid(cls, env, size, r.gen, Append(fed, r.out),
                     process_data(filter_chunk(Flatten(Append(fed, r.out)))))

\* one round of the loop: next() on the reader has returned r
StreamChunk(cls, env, size, r, fed) ==
    IF r.exc = "StopIteration"
    THEN Outcome("done", "StopIteration", "none", EmptySensorData, cls, r.gen, fed)
    ELSE IF r.exc # "none"
    THEN Outcome("done", r.exc, "reader", EmptySensorData, cls, r.gen, fed)
    ELSE IF filter_chunk(r.out) = <<>>
    THEN Stream(cls, env, size, r.gen, Append(fed, r.out))
    ELSE StreamValid(cls, env, size, r.gen, Append(fed, r.out),
                     process_data(filter_chunk(r.out)))

Stream(cls, env, size, gen, fed) ==
    StreamChunk(cls, env, size, ReaderNext(cls, env, size, gen), fed)

\* the first next(): the body begins, with the factory
StreamLayer(layer, env, size) ==
    IF layer.exc # "none"
    THEN Outcome("done", layer.exc, "factory", EmptySensorData, "none", NoGen, <<>>)
    ELSE Stream(layer.cls, env, size, NewGen(layer.cls), <<>>)

\* next() on the generator of process_pipeline_streaming(source, chunk_size)
streaming_next(g, src, size, env) ==
    IF g.pc = "created"
    THEN StreamLayer(create_ingestion_layer(src, env.exists), env, size)
    ELSE IF g.pc = "suspended"
    THEN Stream(g.cls, env, size, g.gen, g.fed)
    ELSE Outcome("done", "StopIteration", g.by, EmptySensorData, g.cls, g.gen, g.fed)

(***************************************************************************)
(* Inputs                                                                  *)
(***************************************************************************)
\* "BioR1", "BioR2", ""
BioR1 == PyStr(<<"B", "i", "o", "R", "1">>)

BioR2 == PyStr(<<"B", "i", "o", "R", "2">>)

EmptyStr == PyStr(<<>>)

\* "2025-08-16 14:00"
Ts1400 == PyStr(<<"2", "0", "2", "5", "-", "0", "8", "-", "1", "6", " ",
                  "1", "4", ":", "0", "0">>)

\* "2025-8-16 14:00": the same instant, written without the zero of the month
Ts1400Short == PyStr(<<"2", "0", "2", "5", "-", "8", "-", "1", "6", " ",
                       "1", "4", ":", "0", "0">>)

\* "2025-08-16 14:30"
Ts1430 == PyStr(<<"2", "0", "2", "5", "-", "0", "8", "-", "1", "6", " ",
                  "1", "4", ":", "3", "0">>)

\* "invalid-timestamp"
TsInvalid == PyStr(<<"i", "n", "v", "a", "l", "i", "d", "-",
                     "t", "i", "m", "e", "s", "t", "a", "m", "p">>)

\* the number 1755352800 as a timestamp
TsNumber == PyInt(17553528)

\* "7.2": a string that looks numeric
NumericStr == PyStr(<<"7", ".", "2">>)

Reading(sensor_id, timestamp, ph_value, temperature) ==
    [sensor_id |-> sensor_id, timestamp |-> timestamp,
     ph_value |-> ph_value, temperature |-> temperature]

\* the readings the aggregator is fed
Readings ==
    { Reading(BioR1, Ts1400, PyFloat(70), PyFloat(400)),
      Reading(BioR1, Ts1400Short, PyInt(80), PyFloat(450)),
      Reading(BioR1, Ts1430, PyFloat(71), PyFloat(200)),
      Reading(BioR1, Ts1430, NaN, PyFloat(300)),
      Reading(BioR2, Ts1400Short, PyFloat(0), PyFloat(0)),
      Reading(BioR2, Ts1430, PyFloat(-10), PyFloat(250)),
      Reading(BioR1, TsInvalid, PyFloat(75), PyFloat(450)),
      Reading(BioR1, TsNumber, PyFloat(70), PyFloat(450)) }

\* the longest chunk, the most records processed in a run, the most resets
MaxChunk == 2

MaxRecords == 3

MaxResets == 1

Chunks == UNION {[1..n -> Readings] : n \in 0..MaxChunk}

\* the field values validate_reading is tried on
SensorIdValues == {Absent, None, EmptyStr, BioR1, List}

TimestampValues == {Absent, None, EmptyStr, Ts1400, TsInvalid, TsNumber}

NumberValues ==
    {Absent, None, NumericStr, List, PyInt(7), PyInt(0), PyInt(-10),
     PyFloat(72), PyFloat(0), PyFloat(-10), NaN}

AllReadings ==
    {Reading(s, t, p, c) : s \in SensorIdValues, t \in TimestampValues,
                           p \in NumberValues, c \in NumberValues}

\* the largest chunk_size, the most lines of a file or object, the most pages
\* of an endpoint and the most items of a page
MaxChunkSize == 3

MaxLines == 5

MaxPages == 4

MaxPageItems == 2

ChunkSizes == 1..MaxChunkSize

\* the record {"id": n}
Item(n) == [id |-> n]

\* a file or object whose lines are of the given kinds; line i decodes to
\* {"id": i}
LinesOf(kinds) ==
    [i \in 1..Len(kinds) |->
        IF kinds[i] = "json" THEN JsonLine(Item(i))
        ELSE IF kinds[i] = "blank" THEN BlankLine ELSE BadLine]

\* the files and objects read: missing, or with up to MaxLines lines
Files ==
    {[exists |-> FALSE, lines |-> <<>>, pages |-> <<>>]} \cup
    {[exists |-> TRUE, lines |-> LinesOf(kinds), pages |-> <<>>] :
        kinds \in UNION {[1..n -> {"json", "blank", "bad"}] : n \in 0..MaxLines}}

\* the response to the request of page p: an error status, or a body of the
\* given number of items; item j of page p is {"id": 10 * p + j}
PageOf(p, items) ==
    IF items < 0 THEN [status |-> "HTTPError", data |-> <<>>]
    ELSE [status |-> "ok", data |-> [j \in 1..items |-> Item(10 * p + j)]]

\* the endpoints read: up to MaxPages pages, and empty bodies from then on
Endpoints ==
    {[exists |-> TRUE, lines |-> <<>>,
      pages |-> [p \in 1..Len(items) |-> PageOf(p, items[p])]] :
        items \in UNION {[1..n -> -1..MaxPageItems] : n \in 0..MaxPages}}

\* the source descriptors the pipeline is called with
\* "http://a": an http URL
UrlHttp == PyStr(<<"h", "t", "t", "p", ":", "/", "/", "a">>)

\* "https://a.csv": an https URL that ends in a recognized extension
UrlHttpsCsv == PyStr(<<"h", "t", "t", "p", "s", ":", "/", "/", "a", ".", "c", "s", "v">>)

\* "HTTP://a": an http URL with the scheme in upper case
UrlUpper == PyStr(<<"H", "T", "T", "P", ":", "/", "/", "a">>)

\* "a.jsonl"
PathJsonl == PyStr(<<"a", ".", "j", "s", "o", "n", "l">>)

\* "a.json"
PathJson == PyStr(<<"a", ".", "j", "s", "o", "n">>)

\* "a.txt"
PathTxt == PyStr(<<"a", ".", "t", "x", "t">>)

\* "a.csv"
PathCsv == PyStr(<<"a", ".", "c", "s", "v">>)

\* "data": a name without an extension
PathPlain == PyStr(<<"d", "a", "t", "a">>)

\* "a.JSON": an extension in upper case
PathUpper == PyStr(<<"a", ".", "J", "S", "O", "N">>)

\* "s3://b/k": a scheme that is not http
UrlS3 == PyStr(<<"s", "3", ":", "/", "/", "b", "/", "k">>)

Descriptors ==
    {UrlHttp, UrlHttpsCsv, UrlUpper, PathJsonl, PathJson,
     PathTxt, PathCsv, PathPlain, PathUpper, UrlS3}

\* the readings the sources hold: one that is folded, one with ph_value 0.0
\* and temperature 0.0, one that is not valid, one whose timestamp does not
\* parse and one whose timestamp is a number
PipelineReadings ==
    { Reading(BioR1, Ts1400Short, PyInt(80), PyFloat(450)),
      Reading(BioR2, Ts1400Short, PyFloat(0), PyFloat(0)),
      Reading(BioR2, Ts1430, PyFloat(-10), PyFloat(250)),
      Reading(BioR1, TsInvalid, PyFloat(75), PyFloat(450)),
      Reading(BioR1, TsNumber, PyFloat(70), PyFloat(450)) }

\* the most records a source of the pipeline holds
MaxSourceRecords == 2

SourceRecords == UNION {[1..n -> PipelineReadings] : n \in 0..MaxSourceRecords}

PipelineChunkSizes == 1..MaxSourceRecords

\* the local files of the pipeline: none of that name, or one record a line
PipelineFiles ==
    {[exists |-> FALSE, lines |-> <<>>, pages |-> <<>>]} \cup
    {[exists |-> TRUE, lines |-> [i \in 1..Len(rs) |-> JsonLine(rs[i])],
      pages |-> <<>>] : rs \in SourceRecords}

\* the pages of an endpoint that serves one record a page and answers the
\* request of page failing, if any, with an error status
PagesOf(rs, failing) ==
    [p \in 1..(IF failing > Len(rs) THEN failing ELSE Len(rs)) |->
        IF p = failing THEN [status |-> "HTTPError", data |-> <<>>]
        ELSE IF p <= Len(rs) THEN [status |-> "ok", data |-> <<rs[p]>>]
        ELSE [status |-> "ok", data |-> <<>>]]

PipelineEndpoints ==
    UNION {{[exists |-> FALSE, lines |-> <<>>, pages |-> PagesOf(rs, failing)] :
                failing \in 0..(Len(rs) + 1)} : rs \in SourceRecords}

(***************************************************************************)
(* State                                                                   *)
(***************************************************************************)
VARIABLES
    sensor_data,   \* SensorAggregator.sensor_data
    lastOp,        \* the method called last
    exc,           \* the exception the last call raised, or "none"
    ret,           \* the value the last call returned
    folded,        \* history: the readings folded since construction or reset
    inputs,        \* history: the records passed since construction or reset
    fresh,         \* a second aggregator, constructed at the last reset
    processed,     \* the number of records passed since construction
    resets,        \* the number of resets
    reading,       \* the argument of validate_reading
    validated,     \* the result of validate_reading, once called
    source,        \* the source descriptor
    chunk_size,    \* the chunk_size the readers are constructed with
    world,         \* what the descriptor names: a file, an endpoint, an object
    ingestion_layer, \* a reader and the generator its ingest() returned
    chunks,        \* history: the chunks that generator has yielded
    aggregated,    \* the call of process_pipeline: its outcome
    streaming,     \* the generator process_pipeline_streaming returned
    yielded        \* history: the mappings that generator has yielded

aggregatorVars == <<sensor_data, lastOp, exc, ret, folded, inputs, fresh,
                    processed, resets, reading, validated>>

pipelineVars == <<source, chunk_size, world, ingestion_layer, chunks,
                  aggregated, streaming, yielded>>

vars == <<aggregatorVars, pipelineVars>>

NoneRet == [ty |-> "NoneType", items |-> EmptySensorData]

NotValidated == [done |-> FALSE, value |-> FALSE]

\* process_pipeline not called, process_pipeline_streaming not called
NotCalled == Outcome("none", "none", "none", EmptySensorData, "none", NoGen, <<>>)

\* the pipeline and the readers take no part
NoPipeline ==
    /\ source = EmptyStr
    /\ chunk_size = 1
    /\ world = [exists |-> FALSE, lines |-> <<>>, pages |-> <<>>]
    /\ ingestion_layer = [cls |-> "none", gen |-> NoGen, exc |-> "none"]
    /\ chunks = <<>>
    /\ aggregated = NotCalled
    /\ streaming = NotCalled
    /\ yielded = <<>>

Init ==
    /\ sensor_data = EmptySensorData
    /\ lastOp = "__init__"
    /\ exc = "none"
    /\ ret = NoneRet
    /\ folded = <<>>
    /\ inputs = <<>>
    /\ fresh = EmptySensorData
    /\ processed = 0
    /\ resets = 0
    /\ reading = Reading(Absent, Absent, Absent, Absent)
    /\ validated = NotValidated
    /\ NoPipeline

(***************************************************************************)
(* Operations of SensorAggregator                                          *)
(***************************************************************************)
\* process_chunk has run: the state it leaves and the exception it raised
Returned(r) ==
    /\ sensor_data' = r.data
    /\ exc' = r.exc
    /\ folded' = folded \o r.folded

ProcessChunk ==
    \E c \in Chunks :
        /\ processed + Len(c) <= MaxRecords
        /\ Returned(process_chunk(sensor_data, c))
        /\ fresh' = process_chunk(fresh, c).data
        /\ lastOp' = "process_chunk"
        /\ ret' = NoneRet
        /\ inputs' = inputs \o c
        /\ processed' = processed + Len(c)
        /\ UNCHANGED <<resets, reading, validated, pipelineVars>>

\* as GetResults, with the entries of both sensors looked up in the defaultdict
GetResults_inserting ==
    /\ ret' = [ty |-> "dict", items |-> get_results(Touch(Touch(sensor_data, BioR1), BioR2))]
    /\ sensor_data' = Touch(Touch(sensor_data, BioR1), BioR2)
    /\ lastOp' = "get_results"
    /\ exc' = "none"
    /\ UNCHANGED <<folded, inputs, fresh, processed, resets, reading, validated,
                   pipelineVars>>

GetResults ==
    /\ ret' = [ty |-> "dict", items |-> get_results(sensor_data)]
    /\ lastOp' = "get_results"
    /\ exc' = "none"
    /\ UNCHANGED <<sensor_data, folded, inputs, fresh, processed, resets,
                   reading, validated, pipelineVars>>

Reset ==
    /\ resets < MaxResets
    /\ sensor_data' = reset(sensor_data)
    /\ lastOp' = "reset"
    /\ exc' = "none"
    /\ ret' = NoneRet
    /\ folded' = <<>>
    /\ inputs' = <<>>
    /\ fresh' = EmptySensorData
    /\ resets' = resets + 1
    /\ UNCHANGED <<processed, reading, validated, pipelineVars>>

Next == ProcessChunk \/ GetResults \/ Reset

Spec == Init /\ [][Next]_vars

(***************************************************************************)
(* validate_reading on its own                                             *)
(***************************************************************************)
InitValidate ==
    /\ sensor_data = EmptySensorData
    /\ lastOp = "__init__"
    /\ exc = "none"
    /\ ret = NoneRet
    /\ folded = <<>>
    /\ inputs = <<>>
    /\ fresh = EmptySensorData
    /\ processed = 0
    /\ resets = 0
    /\ reading \in AllReadings
    /\ validated = NotValidated
    /\ NoPipeline

ValidateReading ==
    /\ ~validated.done
    /\ validated' = [done |-> TRUE, value |-> validate_reading(reading)]
    /\ lastOp' = "validate_reading"
    /\ UNCHANGED <<sensor_data, exc, ret, folded, inputs, fresh,
                   processed, resets, reading, pipelineVars>>

\* process_chunk([reading]) on the new aggregator
ProcessSingle ==
    /\ processed = 0
    /\ Returned(process_chunk(sensor_data, <<reading>>))
    /\ fresh' = process_chunk(fresh, <<reading>>).data
    /\ lastOp' = "process_chunk"
    /\ ret' = NoneRet
    /\ inputs' = inputs \o <<reading>>
    /\ processed' = processed + 1
    /\ UNCHANGED <<resets, reading, validated, pipelineVars>>

NextValidate == ValidateReading \/ ProcessSingle

SpecValidate == InitValidate /\ [][NextValidate]_vars

(***************************************************************************)
(* The readers on their own: a reader is constructed, ingest() called, and *)
(* the generator advanced by next() until it ends                          *)
(***************************************************************************)
NoAggregator ==
    /\ sensor_data = EmptySensorData
    /\ lastOp = "__init__"
    /\ exc = "none"
    /\ ret = NoneRet
    /\ folded = <<>>
    /\ inputs = <<>>
    /\ fresh = EmptySensorData
    /\ processed = 0
    /\ resets = 0
    /\ reading = Reading(Absent, Absent, Absent, Absent)
    /\ validated = NotValidated

InitReader ==
    /\ NoAggregator
    /\ source = EmptyStr
    /\ chunk_size \in ChunkSizes
    /\ \/ /\ world \in Files
          /\ ingestion_layer \in
                 {[cls |-> "FileIngestionLayer", gen |-> FileGen, exc |-> "none"],
                  [cls |-> "S3IngestionLayer", gen |-> S3Gen, exc |-> "none"]}
       \/ /\ world \in Endpoints
          /\ ingestion_layer = [cls |-> "APIIngestionLayer", gen |-> ApiGen, exc |-> "none"]
    /\ chunks = <<>>
    /\ aggregated = NotCalled
    /\ streaming = NotCalled
    /\ yielded = <<>>

\* next() has returned or raised
Ingested(r) ==
    /\ ingestion_layer' = [ingestion_layer EXCEPT !.gen = r.gen, !.exc = r.exc]
    /\ chunks' = IF r.exc = "none" THEN Append(chunks, r.out) ELSE chunks
    /\ UNCHANGED <<aggregatorVars, source, chunk_size, world, aggregated,
                   streaming, yielded>>

FileIngestNext ==
    /\ ingestion_layer.cls = "FileIngestionLayer"
    /\ ingestion_layer.gen.pc # "done"
    /\ Ingested(FileNext(world, chunk_size, ingestion_layer.gen))

APIIngestNext ==
    /\ ingestion_layer.cls = "APIIngestionLayer"
    /\ ingestion_layer.gen.pc # "done"
    /\ Ingested(ApiNext(world.pages, chunk_size, ingestion_layer.gen))

S3IngestNext ==
    /\ ingestion_layer.cls = "S3IngestionLayer"
    /\ ingestion_layer.gen.pc # "done"
    /\ Ingested(S3Next(world, chunk_size, ingestion_layer.gen))

NextReader == FileIngestNext \/ APIIngestNext \/ S3IngestNext

SpecReader == InitReader /\ [][NextReader]_vars

\* the caller iterates the generator to its end: list(layer.ingest(source))
SpecReaderLive == SpecReader /\ WF_vars(NextReader)

(***************************************************************************)
(* The pipeline: process_pipeline is called once, and the generator of     *)
(* process_pipeline_streaming is created and advanced by next(), both on   *)
(* the same source                                                         *)
(***************************************************************************)
InitPipeline ==
    /\ NoAggregator
    /\ source \in Descriptors
    /\ chunk_size \in PipelineChunkSizes
    /\ world \in IF Scheme(source.cs) \in HttpSchemes
                 THEN PipelineEndpoints ELSE PipelineFiles
    /\ ingestion_layer = [cls |-> "none", gen |-> NoGen, exc |-> "none"]
    /\ chunks = <<>>
    /\ aggregated = NotCalled
    /\ streaming = NotCalled
    /\ yielded = <<>>

ProcessPipeline ==
    /\ aggregated.pc = "none"
    /\ aggregated' = process_pipeline(source, chunk_size, world)
    /\ UNCHANGED <<aggregatorVars, source, chunk_size, world, ingestion_layer,
                   chunks, streaming, yielded>>

ProcessPipelineStreaming ==
    /\ streaming.pc = "none"
    /\ streaming' = StreamingCreated
    /\ UNCHANGED <<aggregatorVars, source, chunk_size, world, ingestion_layer,
                   chunks, aggregated, yielded>>

\* next() has yielded a mapping, or raised
Advanced(g) ==
    /\ streaming' = g
    /\ yielded' = IF g.pc = "suspended"
                  THEN Append(yielded, [ret |-> g.ret, chunk |-> Len(g.fed)])
                  ELSE yielded
    /\ UNCHANGED <<aggregatorVars, source, chunk_size, world, ingestion_layer,
                   chunks, aggregated>>

StreamingNext ==
    /\ streaming.pc # "none"
    /\ Advanced(streaming_next(streaming, source, chunk_size, world))

NextPipeline == ProcessPipeline \/ ProcessPipelineStreaming \/ StreamingNext

SpecPipeline == InitPipeline /\ [][NextPipeline]_vars

(***************************************************************************)
(* Properties                                                              *)
(***************************************************************************)
\* what a call of get_results() would return now
Results == get_results(sensor_data)

\* the folded readings of one sensor, in fold order
FoldedOf(sensor_id) == SelectSeq(folded, LAMBDA r : r.sensor_id = sensor_id)

\* the sensors that have a folded reading
FoldedSensors == {folded[i].sensor_id : i \in 1..Len(folded)}

\* a value that is present, not null, of type int or float, and >= 0
NonNegativeNumber(v) ==
    /\ v.ty \notin {"absent", "NoneType"}
    /\ v.ty \in {"int", "float"}
    /\ ~v.nan /\ v.n >= 0

\* a value that is present and non-empty (absent, null and "" are not)
PresentNonEmpty(v) ==
    /\ v.ty \notin {"absent", "NoneType"}
    /\ v.ty \in {"str", "list"} => Len(v.cs) > 0
    /\ v.ty \in {"int", "float"} => v.n # 0

WellFormed(r) ==
    /\ PresentNonEmpty(r.sensor_id)
    /\ PresentNonEmpty(r.timestamp)
    /\ NonNegativeNumber(r.ph_value)
    /\ NonNegativeNumber(r.temperature)

\* C1: validate_reading returns True exactly for the records whose sensor_id
\* and timestamp are present and non-empty and whose ph_value and temperature
\* are present, not null, numbers and >= 0; the timestamp's format plays no part.
C1_ValidIffWellFormed ==
    validated.done => (validated.value <=> WellFormed(reading))

\* C2: process_chunk returns normally for every batch: no exception reaches
\* the caller.
C2_NoException == lastOp = "process_chunk" => exc = "none"

\* the sum of the ph_value of the readings, in tenths
RECURSIVE SumPh(_)
SumPh(rs) == IF rs = <<>> THEN 0 ELSE rs[1].ph_value.n + SumPh(Tail(rs))

AnyNaNPh(rs) == \E i \in 1..Len(rs) : rs[i].ph_value.nan

\* C3: for every sensor of get_results(), ph_count is the number of folded
\* readings of the sensor, ph_sum the sum of their ph_value, and avg_ph their
\* arithmetic mean ph_sum / ph_count.
C3_MeanOfFolded ==
    \A s \in DOMAIN Results :
        LET rs == FoldedOf(s)
            d == sensor_data[s]
            avg_ph == Results[s][1]
        IN  /\ d.ph_count = Len(rs)
            /\ d.ph_sum.nan = AnyNaNPh(rs)
            /\ ~AnyNaNPh(rs) => d.ph_sum.n = SumPh(rs)
            /\ avg_ph.nan = AnyNaNPh(rs)
            /\ avg_ph.den > 0
            /\ ~AnyNaNPh(rs) => avg_ph.num * Len(rs) = avg_ph.den * SumPh(rs)

\* two readings of one sensor are folded and their mean is not a whole tenth
C3_Witness ==
    /\ lastOp = "get_results"
    /\ \E s \in DOMAIN ret.items :
          /\ Len(FoldedOf(s)) >= 2
          /\ ret.items[s][1].den = 2
          /\ ret.items[s][1] = Results[s][1]

\* the folded readings whose temperature is > 40.0 or < 20.0
Anomalies(rs) ==
    {i \in 1..Len(rs) :
        /\ ~rs[i].temperature.nan
        /\ rs[i].temperature.n > 400 \/ rs[i].temperature.n < 200}

\* C4: anomaly_count of a sensor is the number of its folded readings whose
\* temperature is strictly above 40.0 or strictly below 20.0.
C4_AnomalyCount ==
    \A s \in DOMAIN Results :
        Results[s][2] = Cardinality(Anomalies(FoldedOf(s)))

\* a sensor has folded a reading at exactly 40.0, one at exactly 20.0 and an
\* anomaly
C4_Witness ==
    \E s \in DOMAIN Results :
        LET rs == FoldedOf(s)
        IN  /\ \E i \in 1..Len(rs) : rs[i].temperature.n = 400
            /\ \E i \in 1..Len(rs) : rs[i].temperature.n = 200
            /\ Results[s][2] = 1

\* the parsed instant of a folded reading
Instant(r) == strptime(r.timestamp).obj

\* the positions of the readings whose instant no other reading exceeds
MaxPositions(rs) ==
    LET at == [i \in 1..Len(rs) |-> Instant(rs[i])]
    IN  {i \in 1..Len(rs) : \A j \in 1..Len(rs) : ~DatetimeGt(at[j], at[i])}

\* the least member of a non-empty set of positions
First(S) == CHOOSE i \in S : \A j \in S : i <= j

\* C5: latest_timestamp of a sensor is the timestamp string of the first, in
\* fold order, of its folded readings that have the greatest parsed instant.
C5_LatestTimestamp ==
    \A s \in DOMAIN Results :
        LET rs == FoldedOf(s)
        IN  /\ MaxPositions(rs) # {}
            /\ Results[s][3] = rs[First(MaxPositions(rs))].timestamp
            /\ sensor_data[s].latest_timestamp_obj = Instant(rs[First(MaxPositions(rs))])

\* two folded readings share the greatest instant under different strings
C5_Witness ==
    \E s \in DOMAIN Results :
        LET rs == FoldedOf(s)
        IN  \E i, j \in MaxPositions(rs) :
                /\ i < j
                /\ rs[i].timestamp # rs[j].timestamp
                /\ Results[s][3] = rs[i].timestamp

\* the argument of the process_chunk call of a step: what the step adds to the
\* records passed
Chunk == SubSeq(inputs', Len(inputs) + 1, Len(inputs'))

\* a record that passes validation and whose timestamp does not parse
Unparseable(r) == validate_reading(r) /\ strptime(r.timestamp).exc # "none"

\* C6: a record that passes validate_reading and whose timestamp does not parse
\* is dropped: process_chunk leaves the state it would leave had the record
\* not been in the batch, and goes on to the records after it.
C6_UnparseableDropped ==
    [][lastOp' = "process_chunk" =>
          sensor_data' =
              process_chunk(sensor_data,
                            SelectSeq(Chunk, LAMBDA r : ~Unparseable(r))).data]_vars

\* C7: after reset() the results are empty, and from then on the aggregator is
\* in the state of a newly constructed one given the same calls.
C7_ResetIsFresh ==
    /\ lastOp = "reset" => Results = EmptySensorData
    /\ resets > 0 => sensor_data = fresh /\ Results = get_results(fresh)

\* records were passed before the reset and readings folded after it
C7_Witness ==
    /\ resets > 0
    /\ processed > Len(inputs)
    /\ folded # <<>>
    /\ lastOp = "get_results"
    /\ ret.items = get_results(fresh)

\* C8: get_results() leaves sensor_data as it is, and a second call right after
\* the first returns an equal mapping.
C8_GetResultsPure ==
    [][lastOp' = "get_results" =>
          /\ sensor_data' = sensor_data
          /\ lastOp = "get_results" => ret' = ret]_vars

\* get_results() has returned a mapping with a sensor in it
C8_Witness ==
    /\ lastOp = "get_results"
    /\ ret.ty = "dict"
    /\ DOMAIN ret.items # {}
    /\ DOMAIN ret.items = DOMAIN sensor_data

\* a record that is not folded: invalid, or with a timestamp that does not parse
NotFoldable(r) == ~validate_reading(r) \/ strptime(r.timestamp).exc # "none"

\* C9: the keys of get_results() are the sensors with a folded reading, and a
\* batch that is empty or holds only records that are not foldable leaves
\* get_results() unchanged.
C9_KeysAreFoldedSensors ==
    [][/\ DOMAIN Results = FoldedSensors
       /\ DOMAIN get_results(sensor_data') = {folded'[i].sensor_id : i \in 1..Len(folded')}
       /\ (lastOp' = "process_chunk" /\ \A i \in 1..Len(Chunk) : NotFoldable(Chunk[i]))
              => get_results(sensor_data') = Results]_vars

\* a sensor whose records were all dropped is missing from results that hold
\* another sensor, after a batch that ends with a record that is not foldable
C9_Witness ==
    /\ lastOp = "process_chunk"
    /\ inputs # <<>>
    /\ NotFoldable(inputs[Len(inputs)])
    /\ DOMAIN Results # {}
    /\ \E i \in 1..Len(inputs) : inputs[i].sensor_id \notin DOMAIN Results

\* C10: the state after process_chunk(a) and then process_chunk(b) is the state
\* after one process_chunk call on a followed by b.
C10_ChunkBoundaries ==
    /\ sensor_data = process_chunk(EmptySensorData, inputs).data
    /\ Results = get_results(process_chunk(EmptySensorData, inputs).data)

\* the orders a batch of n records can be put in
Orders(n) == {p \in [1..n -> 1..n] : \A i, j \in 1..n : p[i] = p[j] => i = j}

\* the records in the order p
Permuted(rs, p) == [i \in 1..Len(rs) |-> rs[p[i]]]

\* per sensor: ph_count, anomaly_count and the latest instant
CountsAndInstant(data) ==
    [s \in DOMAIN data |->
        <<data[s].ph_count, data[s].anomaly_count, data[s].latest_timestamp_obj>>]

\* C11: the records passed, in any other order and in one batch, give the
\* same sensors and per sensor the same ph_count, the same anomaly_count and
\* the same latest instant.
C11_OrderIndependent ==
    \A p \in Orders(Len(inputs)) :
        CountsAndInstant(process_chunk(EmptySensorData, Permuted(inputs, p)).data)
            = CountsAndInstant(sensor_data)

\* the items of the pages from page p up to the first page with an empty body
RECURSIVE ServedFrom(_, _)
ServedFrom(pages, p) ==
    IF p \notin DOMAIN pages \/ pages[p].data = <<>> THEN <<>>
    ELSE pages[p].data \o ServedFrom(pages, p + 1)

\* the records the source holds: the items of the pages of an endpoint, the
\* decoded lines of a file
SourceContent(cls) ==
    IF cls = "APIIngestionLayer" THEN ServedFrom(world.pages, 1)
    ELSE Decoded(world.lines)

\* C12: when the reader does not fail, process_pipeline has fed the
\* aggregator every batch of the source, in order, and returns one mapping:
\* the results of a new aggregator that folded the concatenation of the
\* batches, the empty mapping when there was no batch.
C12_BatchMode ==
    (aggregated.pc # "none" /\ aggregated.by \notin {"factory", "reader"}) =>
        /\ aggregated.pc = "returned"
        /\ Flatten(aggregated.fed) = SourceContent(aggregated.cls)
        /\ aggregated.ret
               = get_results(process_chunk(EmptySensorData,
                                           Flatten(aggregated.fed)).data)
        /\ aggregated.fed = <<>> => aggregated.ret = EmptySensorData

\* the results of one new aggregator that folded the first k chunks taken
\* from the reader
Snapshot(k) ==
    get_results(process_chunk(EmptySensorData,
                              Flatten(SubSeq(streaming.fed, 1, k))).data)

\* C13: the k-th mapping yielded by process_pipeline_streaming is the
\* cumulative snapshot of one aggregator after batches 1..k, and the last
\* mapping yielded is the mapping process_pipeline returns.
C13_Cumulative ==
    /\ \A k \in 1..Len(yielded) : yielded[k].chunk = k /\ yielded[k].ret = Snapshot(k)
    /\ (yielded # <<>> /\ streaming.exc = "StopIteration" /\ aggregated.pc = "returned")
           => yielded[Len(yielded)].ret = aggregated.ret

\* C13, amended: each mapping yielded by process_pipeline_streaming is the
\* process_data result of the valid records of one batch alone, the batch
\* taken last from the reader, with no contribution of an earlier batch.
C13_PerChunk ==
    \A k \in 1..Len(yielded) :
        /\ yielded[k].chunk \in 1..Len(streaming.fed)
        /\ yielded[k].ret
               = process_data(filter_chunk(streaming.fed[yielded[k].chunk])).ret
        /\ DOMAIN yielded[k].ret
               \subseteq {r.sensor_id : r \in Range(streaming.fed[yielded[k].chunk])}

\* two mappings were yielded, and the second lacks the anomaly of the first
\* batch
C13_Witness ==
    /\ Len(yielded) >= 2
    /\ \E s \in DOMAIN yielded[2].ret :
          /\ s \in DOMAIN yielded[1].ret
          /\ yielded[1].ret[s][2] = 1
          /\ yielded[2].ret[s][2] = 1
          /\ Snapshot(2)[s][2] = 2

\* C14: as long as nothing raises, process_pipeline_streaming has yielded one
\* mapping for every batch taken from the reader, in order, also for a batch
\* without a valid record, and it ends when the reader is exhausted.
C14_OnePerBatch ==
    streaming.by = "none" =>
        /\ \A k \in 1..Len(yielded) : yielded[k].chunk = k
        /\ Len(yielded) = Len(streaming.fed)
        /\ streaming.pc = "done" =>
               /\ streaming.exc = "StopIteration"
               /\ Flatten(streaming.fed) = SourceContent(streaming.cls)

\* the batches taken from the reader that brought a mapping: those with a
\* valid record, but for the batch process_data raised on
Yielding ==
    {i \in 1..Len(streaming.fed) :
        /\ filter_chunk(streaming.fed[i]) # <<>>
        /\ ~(streaming.by = "process_data" /\ i = Len(streaming.fed))}

\* C14, amended: the mappings yielded come one from each batch that holds a
\* valid record, in the order of the batches, and none from a batch without a
\* valid record; the sequence ends when the reader is exhausted or when the
\* reader, the factory or process_data raises.
C14_OnePerValidBatch ==
    /\ \A j, k \in 1..Len(yielded) : j < k => yielded[j].chunk < yielded[k].chunk
    /\ {yielded[k].chunk : k \in 1..Len(yielded)} = Yielding
    /\ (streaming.pc = "done" /\ streaming.by = "none") =>
           /\ streaming.exc = "StopIteration"
           /\ Flatten(streaming.fed) = SourceContent(streaming.cls)

\* a batch without a valid record brought no mapping, and the batch after it
\* brought the first
C14_Witness ==
    /\ Len(yielded) = 1
    /\ yielded[1].chunk = 2
    /\ streaming.pc = "done"
    /\ streaming.exc = "StopIteration"

\* C15: for a source that produces one batch, the first mapping yielded by
\* process_pipeline_streaming is the mapping process_pipeline returns,
\* whatever the batch holds.
C15_SingleBatchSame ==
    (/\ aggregated.pc = "returned"
     /\ Len(aggregated.fed) = 1
     /\ streaming.pc \in {"suspended", "done"}) =>
        /\ yielded # <<>>
        /\ yielded[1].ret = aggregated.ret

\* the descriptors whose URL scheme is http or https
HttpDescriptors == {UrlHttp, UrlHttpsCsv, UrlUpper}

\* the descriptors that end in .json, .jsonl, .txt or .csv
ExtensionDescriptors == {UrlHttpsCsv, PathJsonl, PathJson, PathTxt, PathCsv}

\* the outcomes of the two modes, once their body has run
Outcomes == {o \in {aggregated, streaming} : o.pc \notin {"none", "created"}}

\* C16: an http or https descriptor gives the HTTP reader, also when it ends
\* in a recognized extension; any other descriptor that names an existing
\* file or ends in a recognized extension gives the file reader; every other
\* descriptor raises ValueError in both modes, before a reader is asked for a
\* batch.
C16_ReaderSelection ==
    \A o \in Outcomes :
        IF source \in HttpDescriptors
        THEN o.cls = "APIIngestionLayer" /\ o.by # "factory"
        ELSE IF world.exists \/ source \in ExtensionDescriptors
        THEN o.cls = "FileIngestionLayer" /\ o.by # "factory"
        ELSE /\ o.by = "factory"
             /\ o.pc \in {"raised", "done"}
             /\ o = streaming => yielded = <<>>
             /\ o.cls = "none" /\ o.gen = NoGen /\ o.fed = <<>>

\* both modes have raised the ValueError of the factory on a descriptor with
\* another scheme
C16_Witness ==
    /\ source = UrlS3
    /\ aggregated.pc = "raised" /\ aggregated.exc = "ValueError"
    /\ aggregated.by = "factory"
    /\ streaming.pc = "done" /\ streaming.exc = "ValueError"
    /\ streaming.by = "factory"

\* C17: every batch a reader has yielded holds at least one and at most
\* chunk_size records, and every batch but the last holds chunk_size.
C17_OnlyLastShort ==
    /\ \A i \in 1..Len(chunks) : Len(chunks[i]) \in 1..chunk_size
    /\ \A i \in 1..(Len(chunks) - 1) : Len(chunks[i]) = chunk_size

\* C17, amended: every batch a reader has yielded holds at least one and at
\* most chunk_size records; every batch but the last of the file reader and
\* of the HTTP reader holds chunk_size, and a batch of the object storage
\* reader holds the lines that decode among chunk_size consecutive lines.
C17_BatchSizes ==
    /\ \A i \in 1..Len(chunks) : Len(chunks[i]) \in 1..chunk_size
    /\ ingestion_layer.cls # "S3IngestionLayer" =>
           \A i \in 1..(Len(chunks) - 1) : Len(chunks[i]) = chunk_size
    /\ ingestion_layer.cls = "S3IngestionLayer" =>
           /\ Len(chunks) * chunk_size < Len(world.lines) + chunk_size
           /\ Flatten(chunks)
                  = SubSeq(Decoded(world.lines), 1, Len(Flatten(chunks)))

\* the object storage reader has yielded a batch with fewer than chunk_size
\* records and another batch after it
C17_Witness ==
    /\ ingestion_layer.cls = "S3IngestionLayer"
    /\ Len(chunks) >= 2
    /\ Len(chunks[1]) < chunk_size

\* the records of the lines that are JSON documents, in the order of the lines
JsonRecords(lines) ==
    LET documents == SelectSeq(lines, LAMBDA l : l.text = "json")
    IN  [i \in 1..Len(documents) |-> documents[i].value]

\* C18: the batches of the file reader hold, in order, the records of the
\* lines read so far that decode, chunk_size to a batch; once the file is
\* read the batches are ceil(N / chunk_size) and hold all N records, the
\* blank lines and the lines that do not decode left out.
C18_FileReadsAll ==
    (ingestion_layer.cls = "FileIngestionLayer" /\ world.exists) =>
        LET records == JsonRecords(world.lines)
        IN  /\ Flatten(chunks) = SubSeq(records, 1, Len(Flatten(chunks)))
            /\ \A i \in 1..(Len(chunks) - 1) : Len(chunks[i]) = chunk_size
            /\ ingestion_layer.gen.pc = "done" =>
                   /\ ingestion_layer.exc = "StopIteration"
                   /\ Flatten(chunks) = records
                   /\ Len(chunks) = (Len(records) + chunk_size - 1) \div chunk_size

\* a file with a blank line and a line that does not decode before its last
\* record was read to the end in more than one batch, the last one short
C18_Witness ==
    /\ ingestion_layer.cls = "FileIngestionLayer"
    /\ ingestion_layer.gen.pc = "done"
    /\ Len(chunks) >= 2
    /\ Len(chunks[Len(chunks)]) < chunk_size
    /\ \E i, j, k \in 1..Len(world.lines) :
          /\ i < k /\ j < k
          /\ world.lines[i] = BlankLine
          /\ world.lines[j] = BadLine
          /\ world.lines[k].text = "json"

\* what holds of the HTTP reader at every moment: the pages requested are
\* 1, 2, ... in order, each once, and none after an empty body or an error;
\* every batch but the last holds chunk_size items; the batches hold, in
\* order, the items of the pages before the first empty one, all of them
\* once the generator has ended on an empty body
PagesInOrder ==
    LET gen == ingestion_layer.gen
        last == Len(gen.requests)
        served == ServedFrom(world.pages, 1)
    IN  /\ gen.requests = [i \in 1..last |-> i]
        /\ \A p \in 1..(last - 1) :
              /\ Response(world.pages, p).status = "ok"
              /\ Response(world.pages, p).data # <<>>
        /\ \A i \in 1..(Len(chunks) - 1) : Len(chunks[i]) = chunk_size
        /\ Flatten(chunks) = SubSeq(served, 1, Len(Flatten(chunks)))
        /\ (gen.pc = "done" /\ ingestion_layer.exc = "StopIteration") =>
               /\ last >= 1
               /\ Response(world.pages, last) = [status |-> "ok", data |-> <<>>]
               /\ Flatten(chunks) = served

\* C19: the HTTP reader requests the pages 1, 2, ... in order, one request a
\* page, and none after the first empty body; its batches regroup the items
\* of the pages before it, chunk_size to a batch across page boundaries; and
\* the generator ends.
C19_Pagination ==
    /\ [](ingestion_layer.cls = "APIIngestionLayer" => PagesInOrder)
    /\ <>(ingestion_layer.cls = "APIIngestionLayer" => ingestion_layer.gen.pc = "done")

\* the generator has ended on an empty body, with a batch that holds items
\* of two pages and a page with items after the empty one that was not
\* requested
C19_Witness ==
    /\ ingestion_layer.cls = "APIIngestionLayer"
    /\ ingestion_layer.gen.pc = "done"
    /\ ingestion_layer.exc = "StopIteration"
    /\ \E i \in 1..Len(chunks) :
          \E a, b \in Range(chunks[i]) : a.id < 20 /\ b.id > 20
    /\ \E p \in DOMAIN world.pages :
          /\ p > Len(ingestion_layer.gen.requests)
          /\ world.pages[p].data # <<>>

\* the reader of the outcome was asked for a batch and raised: the file
\* reader when no file has the name, the HTTP reader when the page it
\* requested last has an error status
ReaderRaised(o) ==
    \/ /\ o.cls = "FileIngestionLayer"
       /\ o.gen.pc = "done"
       /\ ~world.exists
    \/ /\ o.cls = "APIIngestionLayer"
       /\ o.gen.requests # <<>>
       /\ Response(world.pages, o.gen.requests[Len(o.gen.requests)]).status # "ok"

\* the exception the reader of the outcome raises
Failure(o) ==
    IF o.cls = "APIIngestionLayer" THEN "HTTPError" ELSE "FileNotFoundError"

\* C20: when the reader raises while it produces a batch, the exception
\* leaves the driver: process_pipeline raises it and returns no mapping;
\* the next() of process_pipeline_streaming raises it, the mappings yielded
\* are those of batches produced before, and no mapping is yielded after.
C20_ReaderFailure ==
    [][/\ ReaderRaised(aggregated') =>
              /\ aggregated'.pc = "raised"
              /\ aggregated'.exc = Failure(aggregated')
              /\ aggregated'.ret = EmptySensorData
       /\ (ReaderRaised(streaming') /\ ~ReaderRaised(streaming)) =>
              /\ streaming'.pc = "done"
              /\ streaming'.exc = Failure(streaming')
              /\ yielded' = yielded
              /\ \A k \in 1..Len(yielded) : yielded[k].chunk <= Len(streaming'.fed)
       /\ ReaderRaised(streaming) =>
              /\ yielded' = yielded
              /\ streaming' # streaming =>
                     streaming'.pc = "done" /\ streaming'.exc = "StopIteration"]_vars

\* the endpoint served a first page and answered the request of the second
\* with an error: the streaming mode yielded one mapping and then raised, the
\* batch mode raised
C20_Witness ==
    /\ ReaderRaised(aggregated)
    /\ aggregated.exc = "HTTPError"
    /\ aggregated.fed # <<>>
    /\ ReaderRaised(streaming)
    /\ Len(yielded) = 1
    /\ streaming.exc = "StopIteration"

\* a reading whose ph_value or temperature is zero, with a sensor_id, numbers
\* that are not negative and a timestamp that parses
ZeroValued(r) ==
    /\ r.sensor_id.ty = "str" /\ r.sensor_id.cs # <<>>
    /\ IsNumber(r.ph_value) /\ ~r.ph_value.nan /\ r.ph_value.n >= 0
    /\ IsNumber(r.temperature) /\ ~r.temperature.nan /\ r.temperature.n >= 0
    /\ r.ph_value.n = 0 \/ r.temperature.n = 0
    /\ strptime(r.timestamp).exc = "none"

\* the mapping counts the reading: its sensor is a key, with an anomaly when
\* the temperature is zero
Counted(mapping, r) ==
    /\ r.sensor_id \in DOMAIN mapping
    /\ r.temperature.n = 0 => mapping[r.sensor_id][2] >= 1

\* C21: a reading whose ph_value or temperature is 0.0, otherwise valid and
\* with a timestamp that parses, passes validate_reading and is folded by
\* the aggregator, and is counted in the mapping process_pipeline returns
\* and in the mapping process_pipeline_streaming yields for its batch.
C21_ZeroAccepted ==
    /\ \A r \in PipelineReadings :
          ZeroValued(r) =>
              /\ validate_reading(r)
              /\ process_chunk(EmptySensorData, <<r>>).data[r.sensor_id].ph_count = 1
    /\ aggregated.pc = "returned" =>
          \A r \in Range(Flatten(aggregated.fed)) :
              ZeroValued(r) => Counted(aggregated.ret, r)
    /\ \A k \in 1..Len(yielded) :
          \A r \in Range(streaming.fed[yielded[k].chunk]) :
              ZeroValued(r) => Counted(yielded[k].ret, r)

\* the fetch of the reader has failed: open() or get_object() found nothing
\* of the name, or the page requested last was answered with an error status
FetchFailed ==
    \/ /\ ingestion_layer.cls \in {"FileIngestionLayer", "S3IngestionLayer"}
       /\ ingestion_layer.gen.pc # "start"
       /\ ~world.exists
    \/ /\ ingestion_layer.cls = "APIIngestionLayer"
       /\ ingestion_layer.gen.requests # <<>>
       /\ Response(world.pages,
                   ingestion_layer.gen.requests[Len(ingestion_layer.gen.requests)]).status
              # "ok"

\* the exception a failed fetch raises: the HTTPError of raise_for_status(),
\* the ValueError("Error fetching from S3: ...") raised for a ClientError,
\* the FileNotFoundError of open()
FetchError ==
    IF ingestion_layer.cls = "APIIngestionLayer" THEN "HTTPError"
    ELSE IF ingestion_layer.cls = "S3IngestionLayer" THEN "ValueError"
    ELSE "FileNotFoundError"

\* the records the reader is to deliver
Deliverable ==
    IF ingestion_layer.cls = "APIIngestionLayer" THEN ServedFrom(world.pages, 1)
    ELSE Decoded(world.lines)

\* C22: a failed fetch leaves ingest as an exception, never as the end of
\* the sequence: the HTTP reader raises HTTPError for an error status on any
\* page, the object storage reader raises the ValueError "Error fetching
\* from S3" when the bucket or the object is missing; the sequence ends
\* normally only when no fetch failed, and then the batches hold every
\* record but those of the entries that do not decode, which are skipped
\* without an exception.
C22_FailureSurfaced ==
    /\ FetchFailed =>
           /\ ingestion_layer.gen.pc = "done"
           /\ ingestion_layer.exc = FetchError
    /\ ingestion_layer.exc = "StopIteration" =>
           /\ ~FetchFailed
           /\ Flatten(chunks) = Deliverable
    /\ ingestion_layer.exc \in {"none", "StopIteration", FetchError}
    /\ ingestion_layer.exc = FetchError => FetchFailed

\* the object storage reader was asked for its first batch of an object that
\* is missing, and raised
C22_Witness ==
    /\ ingestion_layer.cls = "S3IngestionLayer"
    /\ ~world.exists
    /\ ingestion_layer.gen.pc = "done"
    /\ ingestion_layer.exc = "ValueError"
    /\ chunks = <<>>

\* the generator of the reader after n calls of next()
RECURSIVE GenAfter(_, _, _, _, _)
GenAfter(cls, env, size, gen, n) ==
    IF n = 0 THEN gen
    ELSE GenAfter(cls, env, size, ReaderNext(cls, env, size, gen).gen, n - 1)

\* the calls of next() the driver of the outcome has made on its reader: one
\* for each batch taken, and one more when the reader ended or raised
Asked(o) ==
    IF o.pc = "suspended" \/ o.by \in {"aggregator", "process_data"}
    THEN Len(o.fed)
    ELSE Len(o.fed) + 1

\* C23: in both modes the reader is never ahead of the fold: the reader
\* stands where next() left it when it handed over the batch taken last, so
\* that when the fold of batch k raises, or the mapping of batch k is
\* yielded, batch k+1 has not been requested; each batch taken is the next
\* one of the reader; and a mapping is yielded for the batch taken last.
C23_OneBatchAhead ==
    /\ \A o \in Outcomes :
          o.cls # "none" =>
              /\ o.gen = GenAfter(o.cls, world, chunk_size, NewGen(o.cls), Asked(o))
              /\ \A k \in 1..Len(o.fed) :
                    o.fed[k] = ReaderNext(o.cls, world, chunk_size,
                                          GenAfter(o.cls, world, chunk_size,
                                                   NewGen(o.cls), k - 1)).out
    /\ streaming.pc = "suspended" =>
           /\ yielded # <<>>
           /\ yielded[Len(yielded)].chunk = Len(streaming.fed)
    /\ aggregated.pc = "returned" =>
           aggregated.ret
               = get_results(process_chunk(EmptySensorData,
                                           Flatten(aggregated.fed)).data)

\* both drivers stopped at the first batch of a source that holds another:
\* the fold of the batch raised in either mode, and neither reader was asked
\* for the second batch
C23_Witness ==
    /\ aggregated.by = "aggregator"
    /\ Len(aggregated.fed) = 1
    /\ aggregated.gen.pc # "done"
    /\ streaming.by = "process_data"
    /\ Len(streaming.fed) = 1
    /\ streaming.gen.pc # "done"
    /\ Len(SourceContent(streaming.cls)) > chunk_size

\* the entry of a sensor has not gone back: the counts have not decreased
\* and the latest instant has not been lost or replaced by an earlier one
NotDecreased(old, new) ==
    /\ new.ph_count >= old.ph_count
    /\ new.anomaly_count >= old.anomaly_count
    /\ old.latest_timestamp_obj # NoDatetime =>
           /\ new.latest_timestamp_obj # NoDatetime
           /\ ~DatetimeGt(old.latest_timestamp_obj, new.latest_timestamp_obj)

\* C24: a process_chunk step, whether it returns or raises, keeps every
\* known sensor and decreases neither its ph_count, nor its anomaly_count,
\* nor its latest instant; get_results() changes nothing; a sensor leaves
\* the state only in a reset() step, and then all of them leave.
C24_Monotone ==
    [][/\ lastOp' \in {"process_chunk", "get_results"} =>
              /\ DOMAIN sensor_data \subseteq DOMAIN sensor_data'
              /\ \A s \in DOMAIN sensor_data :
                    NotDecreased(sensor_data[s], sensor_data'[s])
       /\ ~(DOMAIN sensor_data \subseteq DOMAIN sensor_data') =>
              /\ lastOp' = "reset"
              /\ sensor_data' = EmptySensorData]_vars

\* a sensor has folded a reading of an earlier instant after one of a later
\* instant and kept the later one, while another sensor is known
C24_Witness ==
    /\ lastOp = "process_chunk"
    /\ Cardinality(DOMAIN sensor_data) >= 2
    /\ \E s \in DOMAIN sensor_data :
          LET rs == FoldedOf(s)
          IN  \E i, j \in 1..Len(rs) :
                  /\ i < j
                  /\ DatetimeGt(Instant(rs[i]), Instant(rs[j]))
                  /\ sensor_data[s].latest_timestamp_obj = Instant(rs[i])

\* C25: for every list of records, process_data(records) is the
\* get_results() of a new aggregator after process_chunk(records): the same
\* sensors, and for each the same average, anomaly_count and
\* latest_timestamp, also for records with a zero ph_value or temperature
\* and for records whose timestamp does not parse.
C25_LegacyAgrees ==
    (/\ sensor_data = process_chunk(EmptySensorData, inputs).data
     /\ process_chunk(EmptySensorData, inputs).exc = "none") =>
        process_data(inputs) = [exc |-> "none", ret |-> Results]

\* C26: every entry of sensor_data has ph_count >= 1, an anomaly_count
\* between 0 and ph_count, and a latest timestamp that is a string, parses
\* under the format, and is the string of the stored instant; so
\* get_results() divides by a positive count and reports a timestamp for
\* every sensor.
C26_EntryInvariant ==
    /\ \A s \in DOMAIN sensor_data :
          LET d == sensor_data[s]
          IN  /\ d.ph_count >= 1
              /\ d.anomaly_count >= 0
              /\ d.anomaly_count <= d.ph_count
              /\ d.latest_timestamp_str.ty = "str"
              /\ strptime(d.latest_timestamp_str).exc = "none"
              /\ strptime(d.latest_timestamp_str).obj = d.latest_timestamp_obj
              /\ Results[s][1] = FDiv(d.ph_sum, d.ph_count)
              /\ Results[s][3] = d.latest_timestamp_str
    /\ lastOp = "get_results" =>
          \A s \in DOMAIN ret.items :
              /\ ret.items[s][1].den >= 1
              /\ ret.items[s][3].ty = "str"

\* a record whose timestamp does not parse was passed, a call of
\* process_chunk raised after it had folded a reading, and get_results()
\* was called on the state it left
C26_Witness ==
    /\ lastOp = "get_results"
    /\ DOMAIN ret.items # {}
    /\ \E i \in 1..Len(inputs) :
          validate_reading(inputs[i]) /\ strptime(inputs[i].timestamp).exc = "ValueError"
    /\ \E i \in 1..Len(inputs) :
          validate_reading(inputs[i]) /\ strptime(inputs[i].timestamp).exc = "TypeError"

\* the readings the step has folded
NewlyFolded == SubSeq(folded', Len(folded) + 1, Len(folded'))

\* C27: folding a reading of a sensor changes the entry of no other sensor:
\* a process_chunk step leaves the entry and the result tuple of every known
\* sensor it folded no reading of as they were, and so does the fold of any
\* one reading in the state reached.
C27_Frame ==
    [][/\ lastOp' = "process_chunk" =>
              \A t \in DOMAIN sensor_data :
                  (\A i \in 1..Len(NewlyFolded) : NewlyFolded[i].sensor_id # t) =>
                      /\ t \in DOMAIN sensor_data'
                      /\ sensor_data'[t] = sensor_data[t]
                      /\ get_results(sensor_data')[t] = Results[t]
       /\ \A r \in Readings :
              LET after == ProcessReading(sensor_data, r).data
              IN  \A t \in DOMAIN sensor_data \ {r.sensor_id} :
                      /\ after[t] = sensor_data[t]
                      /\ get_results(after)[t] = Results[t]]_vars

\* a reading of one sensor was folded after a reading of another, whose
\* entry is the one its own readings give
C27_Witness ==
    /\ lastOp = "process_chunk"
    /\ \E i, j \in 1..Len(folded) :
          /\ i < j
          /\ folded[i].sensor_id # folded[j].sensor_id
          /\ sensor_data[folded[i].sensor_id]
                 = process_chunk(EmptySensorData,
                                 FoldedOf(folded[i].sensor_id)).data[folded[i].sensor_id]

====
